---- MODULE Spec2Model ----
(***************************************************************************)
(* Model of the evaluation and spatial-reconstruction core of the          *)
(* hyperspectral classification repository:                                *)
(*   - run_inference's map reconstruction (generate_maps.py, lines 59-76); *)
(*   - HSIEvaluation.eval and its helpers (utils/evaluation.py);           *)
(*   - main() of the four parameter-sweep scripts (run_*_experiment*.py).  *)
(* Python sequences are 0-based; the TLA+ sequences that model them are    *)
(* 1-based, so element k of a Python vector v is v[k + 1] here.            *)
(***************************************************************************)
EXTENDS Integers, Sequences, FiniteSets, TLC

\* ---------------------------------------------------------------- bounds
\* Shape of the image of the bounded runs (original_shape = (Height, Width)).
Height == 2
Width == 2
\* Label values of the bounded runs lie in 0..MaxLabel.
MaxLabel == 1
\* The combined label vectors have at most MaxLen elements.
MaxLen == 2
\* Local indices of the index maps are drawn from 0..MaxKey.
MaxKey == 1
\* The training / test index map has at most MaxTrain / MaxTest entries.
MaxTrain == 2
MaxTest == 1
\* eval's label vectors have at most MaxSamples elements with values 0..MaxClass.
MaxSamples == 3
MaxClass == 2
\* When eval is called twice, each call's vectors have at most MaxSamplesTwice
\* elements with values 0..MaxClassTwice.
MaxSamplesTwice == 1
MaxClassTwice == 1
\* AA_andEachClassAccuracy is applied to square matrices of dimension
\* 1..MaxDim with cells 0..MaxCell.
MaxDim == 2
MaxCell == 2
\* The checkpoint directory of generate_maps holds at most MaxFiles files.
MaxFiles == 2

\* ----------------------------------------------------------------- state
VARIABLES
    original_shape,   \* (height, width) of the image
    index2pos_train,  \* training index map: ordered dict, a sequence of [idx, pos]
    index2pos_test,   \* test index map: ordered dict, a sequence of [idx, pos]
    pred_labels,      \* combined prediction vector
    gt_labels,        \* combined ground-truth vector
    pred_map,         \* function pixel -> int
    gt_map,           \* function pixel -> int
    all_indices,      \* the combined index space: ordered dict
    cursor,           \* next entry of all_indices.items() the write loop visits
    pc,               \* "idle" | "start" | "write" | "done" | "error"
    run,              \* number of the current run_inference call (1 or 2)
    first_maps,       \* <<pred_map, gt_map>> of the first call, once it is over
    y_test,           \* eval's true label vector
    y_pred_test,      \* eval's predicted label vector
    self_res,         \* the evaluator's report dict (self.res)
    eval_pc,          \* "idle" | "new" | "ready" | "returned" | "raised"
    data_sign,        \* param['data']['data_sign']
    target_names,     \* self.target_names
    calls,            \* number of eval calls made on the evaluator so far
    returned,         \* the references the eval calls have returned, in order
    first_report,     \* the fields of the first returned report, as returned
    aa_matrix,        \* the argument of AA_andEachClassAccuracy
    aa_result,        \* its result (each_acc, average_acc)
    aa_pc,            \* "idle" | "ready" | "returned"
    script,           \* the sweep script main() belongs to
    config_file,      \* content of configs/hyper2Drope.json
    backup_file,      \* content of configs/hyper2Drope_backup.json
    sweep_pc,         \* position of main() in the sweep script
    next_value,       \* position in the value list of the value the loop is at
    successful_experiments,
    failed_experiments,
    config_at_start,  \* content of the config file when main() started
    pending,          \* the exception main() is being left by, "" if none
    launched,         \* the training subprocesses launched so far, in order
    last_response,    \* the latest answer to the prompt, "<none>" before one
    results_dir,      \* the files matching the result pattern, oldest first
    checkpoints_dir,  \* the *.pth files of checkpoints/, oldest first
    trainer_writes,   \* "always" | "sometimes": does main.py write its files
    interrupted,      \* where a KeyboardInterrupt arrived, "" if none did
    args,             \* generate_maps: the parsed command line
    checkpoints,      \* the names of the files in the checkpoint directory
    gm_pc,            \* position of generate_maps' main()
    dataset_i,        \* 'all' mode: position in datasets of the outer loop
    model_i,          \* 'all' mode: position in models of the inner loop
    visited,          \* 'all' mode: the pairs the loops have been at, in order
    inference_calls,  \* the run_inference calls made, with how each ended
    gm_error,         \* the exception main() was left by, "" if none
    sync_env,         \* sync_to_github: what the script finds and is answered
    sync_pc,          \* position of sync_to_github's main()
    stages,           \* the stages main() has run, with the result of each
    commands,         \* the commands run so far, with the success of each
    sync_result       \* what main() returned and the exit code of the process

reconVars == <<original_shape, index2pos_train, index2pos_test, pred_labels,
               gt_labels, pred_map, gt_map, all_indices, cursor, pc, run,
               first_maps>>

evalVars == <<y_test, y_pred_test, self_res, eval_pc, data_sign, target_names,
              calls, returned, first_report>>

aaVars == <<aa_matrix, aa_result, aa_pc>>

sweepVars == <<script, config_file, backup_file, sweep_pc, next_value,
               successful_experiments, failed_experiments, config_at_start, pending,
               launched, last_response, results_dir, checkpoints_dir, trainer_writes,
               interrupted>>

mainVars == <<args, checkpoints, gm_pc, dataset_i, model_i, visited, inference_calls,
              gm_error>>

syncVars == <<sync_env, sync_pc, stages, commands, sync_result>>

vars == <<reconVars, evalVars, aaVars, sweepVars, mainVars, syncVars>>

\* --------------------------------------------------- reconstruction helpers
Rows == 0 .. (original_shape[1] - 1)
Cols == 0 .. (original_shape[2] - 1)
Pixels == Rows \X Cols

\* np.zeros(original_shape, dtype=np.int32)
ZeroMap == [p \in Pixels |-> 0]

\* A Python dict keeps insertion order; d[k] = v on a present key replaces the
\* value in place, on an absent key appends the item.
DictHas(d, k) == \E n \in 1 .. Len(d) : d[n].idx = k

DictSet(d, k, v) ==
    IF DictHas(d, k)
    THEN [n \in 1 .. Len(d) |-> IF d[n].idx = k THEN [idx |-> k, pos |-> v] ELSE d[n]]
    ELSE Append(d, [idx |-> k, pos |-> v])

\* for idx, pos in items: d[idx + off] = pos
RECURSIVE AddItems(_, _, _)
AddItems(d, items, off) ==
    IF items = <<>> THEN d
    ELSE AddItems(DictSet(d, Head(items).idx + off, Head(items).pos), Tail(items), off)

OffsetFromTest == Len(index2pos_test)
\* offset = len(data_loader.index2pos_train[0])
offset == Len(index2pos_train)

\* all_indices after the two insertion loops
CombinedIndices == AddItems(AddItems(<<>>, index2pos_train, 0), index2pos_test, offset)

InBoundsInclusive(idx) == idx <= Len(pred_labels)
\* if idx < len(pred_labels)
InBounds(idx) == idx < Len(pred_labels)

\* A numpy vector or axis of length n accepts the indices -n .. n-1 and counts a
\* negative index from the end; any other index raises IndexError.
Accepts(i, n) == (0 - n) <= i /\ i < n
Resolve(i, n) == IF i < 0 THEN i + n ELSE i

Addressable(pos) == Accepts(pos[1], original_shape[1]) /\ Accepts(pos[2], original_shape[2])

CellRowOnly(pos) == <<Resolve(pos[1], original_shape[1]), 0>>
\* the cell that pred_map[i, j] / gt_map[i, j] names
Cell(pos) == <<Resolve(pos[1], original_shape[1]), Resolve(pos[2], original_shape[2])>>

EncodeRaw(label) == label
\* "+ 1": the stored value of a class index, 0 being kept for background
Encode(label) == label + 1

\* pred_labels[idx] + 1
PredValue(idx) == Encode(pred_labels[Resolve(idx, Len(pred_labels)) + 1])

GtValueFromPred(idx) == Encode(pred_labels[Resolve(idx, Len(pred_labels)) + 1])
\* gt_labels[idx] + 1
GtValue(idx) == Encode(gt_labels[Resolve(idx, Len(gt_labels)) + 1])

\* One iteration of the write loop on entry e, from maps pm, gm: the maps after
\* it, and whether an IndexError ended it (the subscripts are evaluated in the
\* order of lines 75-76, so an error leaves the later assignments undone).
WriteOne(pm, gm, e) ==
    IF ~InBounds(e.idx)
    THEN [pred |-> pm, gt |-> gm, raised |-> FALSE]
    ELSE IF ~Accepts(e.idx, Len(pred_labels)) \/ ~Addressable(e.pos)
    THEN [pred |-> pm, gt |-> gm, raised |-> TRUE]
    ELSE IF ~Accepts(e.idx, Len(gt_labels))
    THEN [pred |-> [pm EXCEPT ![Cell(e.pos)] = PredValue(e.idx)], gt |-> gm, raised |-> TRUE]
    ELSE [pred |-> [pm EXCEPT ![Cell(e.pos)] = PredValue(e.idx)],
          gt |-> [gm EXCEPT ![Cell(e.pos)] = GtValue(e.idx)],
          raised |-> FALSE]

\* The whole write loop over the entries in the order given.
RECURSIVE WriteAll(_, _, _)
WriteAll(pm, gm, entries) ==
    IF entries = <<>> THEN [pred |-> pm, gt |-> gm, raised |-> FALSE]
    ELSE LET w == WriteOne(pm, gm, Head(entries))
         IN IF w.raised THEN w ELSE WriteAll(w.pred, w.gt, Tail(entries))

\* ------------------------------------------------------ evaluation helpers
\* The metrics are floats in the program; the model keeps them as exact
\* fractions <<numerator, denominator>> in lowest terms with a positive
\* denominator.  The float NaN that numpy's 0/0 produces is <<0, 0>> and the
\* infinity of x/0 is <<1, 0>>.
RECURSIVE Gcd(_, _)
Gcd(a, b) == IF b = 0 THEN a ELSE Gcd(b, a % b)
Abs(a) == IF a < 0 THEN 0 - a ELSE a

NaN == <<0, 0>>
Inf == <<1, 0>>
Frac(n, d) ==
    LET g == Gcd(Abs(n), d)
    IN <<n \div g, d \div g>>

\* numpy float division of two counts
Divide(n, d) == IF d = 0 THEN (IF n = 0 THEN NaN ELSE Inf) ELSE Frac(n, d)

Times(f, k) == IF f[2] = 0 THEN f ELSE Frac(f[1] * k, f[2])
Plus(f, g) ==
    IF f = NaN \/ g = NaN THEN NaN
    ELSE IF f = Inf \/ g = Inf THEN Inf
    ELSE Frac(f[1] * g[2] + g[1] * f[2], f[2] * g[2])

NanToNumIdentity(f) == f

\* np.nan_to_num: NaN becomes 0.0 (and an infinity the largest float, which no
\* quotient of the model produces: a diagonal cell never exceeds its row sum)
NanToNum(f) == IF f = NaN THEN <<0, 1>> ELSE f

RECURSIVE SeqMax(_)
SeqMax(v) == IF Len(v) = 1 THEN v[1]
             ELSE LET m == SeqMax(Tail(v)) IN IF v[1] > m THEN v[1] ELSE m

RECURSIVE SumTo(_, _)
\* the sum of f[1] .. f[n]
SumTo(f, n) == IF n = 0 THEN 0 ELSE f[n] + SumTo(f, n - 1)

RECURSIVE FracSumTo(_, _)
FracSumTo(f, n) == IF n = 0 THEN <<0, 1>> ELSE Plus(f[n], FracSumTo(f, n - 1))

RECURSIVE Ascending(_)
\* the elements of a finite set of integers in ascending order
Ascending(S) ==
    IF S = {} THEN <<>>
    ELSE LET m == CHOOSE x \in S : \A y \in S : x <= y
         IN <<m>> \o Ascending(S \ {m})

\* class_num = np.max(y_test) + 1
class_num == SeqMax(y_test) + 1

UniqueLabelsOfTruth == Ascending({y_test[n] : n \in 1 .. Len(y_test)})

\* sklearn's unique_labels(y_true, y_pred): the values that occur in either
\* vector, ascending; confusion_matrix and cohen_kappa_score, called without
\* labels=, index their matrix by it.
UniqueLabels ==
    Ascending({y_test[n] : n \in 1 .. Len(y_test)} \cup {y_pred_test[n] : n \in 1 .. Len(y_pred_test)})

\* the number of samples of true class a predicted as class b
Count(a, b) == Cardinality({n \in 1 .. Len(y_test) : y_test[n] = a /\ y_pred_test[n] = b})

\* confusion = confusion_matrix(y_test, y_pred_test)
Confusion ==
    LET labs == UniqueLabels
    IN [i \in 1 .. Len(labs) |-> [j \in 1 .. Len(labs) |-> Count(labs[i], labs[j])]]

\* accuracy_score(y_test, y_pred_test)
AccuracyScore ==
    Divide(Cardinality({n \in 1 .. Len(y_test) : y_test[n] = y_pred_test[n]}), Len(y_test))

RowSum(c, i) == SumTo(c[i], Len(c))
ColSum(c, j) == SumTo([i \in 1 .. Len(c) |-> c[i][j]], Len(c))
Total(c) == SumTo([i \in 1 .. Len(c) |-> RowSum(c, i)], Len(c))

\* each_acc = np.nan_to_num(np.diag(c) / np.sum(c, axis=1))
EachAcc(c) == [i \in 1 .. Len(c) |-> NanToNum(Divide(c[i][i], RowSum(c, i)))]

\* average_acc = np.mean(each_acc)
AverageAcc(c) ==
    LET s == FracSumTo(EachAcc(c), Len(c))
    IN IF Len(c) = 0 \/ s[2] = 0 THEN NaN ELSE Frac(s[1], s[2] * Len(c))

\* AA_andEachClassAccuracy(confusion)
AA_andEachClassAccuracy(c) == <<EachAcc(c), AverageAcc(c)>>

\* sklearn's cohen_kappa_score without weights: 1 - k with
\*   k = sum(w * confusion) / sum(w * expected),
\*   expected = outer(column sums, row sums) / total, w = 1 off the diagonal.
\* With a single label both sums are 0 and k is the float 0/0.
OffDiagonal(c) ==
    SumTo([i \in 1 .. Len(c) |->
              SumTo([j \in 1 .. Len(c) |-> IF i = j THEN 0 ELSE c[i][j]], Len(c))], Len(c))
OffDiagonalOuter(c) ==
    SumTo([i \in 1 .. Len(c) |->
              SumTo([j \in 1 .. Len(c) |-> IF i = j THEN 0 ELSE ColSum(c, i) * RowSum(c, j)],
                    Len(c))], Len(c))

CohenKappa(c) ==
    LET d == OffDiagonalOuter(c)
    IN IF d = 0 THEN NaN ELSE Frac(d - Total(c) * OffDiagonal(c), d)

\* self.target_names is a list of names or None; the model keeps both as a
\* record so that the two can be compared.
None == [none |-> TRUE, names |-> <<>>]
NamesTruncated(s) == [none |-> FALSE, names |-> SubSeq(s, 1, Len(s) - 1)]
Names(s) == [none |-> FALSE, names |-> s]

\* get_target_names(): the fixed table of the seven known datasets.
get_target_names ==
    IF data_sign = "IndianPine" THEN
        Names(<<"Corn-notill", "Corn-mintill", "Corn", "Grass-pasture", "Grass-trees",
                "Hay-windrowed", "Soybean-notill", "Soybean-mintill",
                "Soybean-clean", "Wheat", "Woods", "Buildings-Grass-Trees-Drives",
                "Stone-Steel-Towers", "Alfalfa", "Grass-pasture-mowed", "Oats">>)
    ELSE IF data_sign = "Pavia" THEN
        Names(<<"Asphalt", "Meadows", "Gravel", "Trees", "Painted_metal_sheets", "Bare_Soil",
                "Bitumen", "Self_Blocking_Bricks", "Shadows">>)
    ELSE IF data_sign = "Houston" THEN
        Names(<<"Healthy grass", "Stressed grass", "Synthetic grass", "Trees", "Soil", "Water",
                "Residential", "Commercial", "Road", "Highway", "Railway", "Parking Lot 1",
                "Parking Lot 2", "Tennis Court", "Running Track">>)
    ELSE IF data_sign = "Salinas" THEN
        Names(<<"Brocoli_green_weeds_1", "Brocoli_green_weeds_2", "Fallow", "Fallow_rough_plow",
                "Fallow_smooth", "Stubble", "Celery", "Grapes_untrained", "Soil_vinyard_develop",
                "Corn_senesced_green_weeds", "Lettuce_romaine_4wk", "Lettuce_romaine_5wk",
                "Lettuce_romaine_6wk", "Lettuce_romaine_7wk", "Vinyard_untrained",
                "Vinyard_vertical_trellis">>)
    ELSE IF data_sign = "WHHH" THEN
        Names(<<"Red roof", "Road", "Bare soil", "Cotton", "Cotton Firewood", "Rape",
                "Chinese cabbage", "Pakchoi", " Cabbage", "Tuber mustard",
                "Brassica Parachinensis", "Brassica chinensism", "Small Brassica Chinensis",
                "Latuca Sativa", "Celtuce", "Film Covered Lettuce", "Romaine Lettuce",
                "Carrot", "White Radish", "Garlic sprout", "Broad bean", "Tree">>)
    ELSE IF data_sign = "KSC" THEN
        Names(<<"Scrub", "Willow Swamp", "CP hammock", "Slash pine", "Oak-Broadleaf", "Hardwood",
                "Swap", "Graminoid marsh", "Spartina marsh", "Cattail marsh", "Salt marsh",
                "Mud flats", "Water">>)
    ELSE IF data_sign = "Plastic" THEN
        Names(<<"Fillet", "ABS", "FAB", "HDPE", "LDPE", "NYL", "PET", "PP", "PS", "PUR", "PVC",
                "RUB", "TEF">>)
    ELSE None

\* classification_report(y_test, y_pred_test, labels=list(range(class_num)),
\* target_names=self.target_names, zero_division=0, output_dict=True).
\* The statistics are computed for every label of labels=; a ratio with a zero
\* denominator is reported as 0.
Ratio0(n, d) == IF d = 0 THEN <<0, 1>> ELSE Frac(n, d)

ReportLabelsPresent == UniqueLabels

\* labels = list(range(class_num))
ReportLabels == [i \in 1 .. class_num |-> i - 1]

Predicted(k) == Cardinality({n \in 1 .. Len(y_test) : y_pred_test[n] = k})
Support(k) == Cardinality({n \in 1 .. Len(y_test) : y_test[n] = k})

ClassRow(k) ==
    LET tp == Count(k, k)
    IN [precision |-> Ratio0(tp, Predicted(k)),
        recall |-> Ratio0(tp, Support(k)),
        f1 |-> Ratio0(2 * tp, Predicted(k) + Support(k)),
        support |-> Support(k)]

RowNamesNoDefault == target_names.names

\* target_names = ["%s" % l for l in labels] when self.target_names is None
RowNames ==
    IF target_names.none
    THEN [i \in 1 .. Len(ReportLabels) |-> ToString(ReportLabels[i])]
    ELSE target_names.names

Min(a, b) == IF a < b THEN a ELSE b

\* rows = zip(target_names, p, r, f1, s): a different number of names and of
\* labels is only warned about when labels= is given, and zip stops at the
\* shorter of the two.
ClassRows ==
    [i \in 1 .. Min(Len(RowNames), Len(ReportLabels)) |->
        [key |-> RowNames[i], value |-> ClassRow(ReportLabels[i])]]

\* the sums over the labels of labels= that the averages are made of
SumTP == SumTo([i \in 1 .. Len(ReportLabels) |-> Count(ReportLabels[i], ReportLabels[i])],
               Len(ReportLabels))
SumPredicted == SumTo([i \in 1 .. Len(ReportLabels) |-> Predicted(ReportLabels[i])],
                      Len(ReportLabels))
SumSupport == SumTo([i \in 1 .. Len(ReportLabels) |-> Support(ReportLabels[i])],
                    Len(ReportLabels))

\* the micro average is headed "accuracy" when labels= covers every label that
\* occurs in either vector
MicroIsAccuracy ==
    {UniqueLabels[i] : i \in 1 .. Len(UniqueLabels)} \subseteq
        {ReportLabels[i] : i \in 1 .. Len(ReportLabels)}

MicroAvg ==
    [precision |-> Ratio0(SumTP, SumPredicted),
     recall |-> Ratio0(SumTP, SumSupport),
     f1 |-> Ratio0(2 * SumTP, SumPredicted + SumSupport),
     support |-> SumSupport]

\* the statistics of every label of labels=, in the order of labels=
LabelStats == [i \in 1 .. Len(ReportLabels) |-> ClassRow(ReportLabels[i])]

\* the unweighted mean over the labels of one statistic
MacroOf(stats, stat) ==
    LET s == FracSumTo([i \in 1 .. Len(stats) |-> stats[i][stat]], Len(stats))
    IN Frac(s[1], s[2] * Len(stats))

\* the mean weighted by support
WeightedOf(stats, stat) ==
    LET s == FracSumTo([i \in 1 .. Len(stats) |-> Times(stats[i][stat], stats[i].support)],
                       Len(stats))
    IN Ratio0(s[1], s[2] * SumSupport)

\* The report dict in insertion order: the class rows, then "accuracy" (a
\* single float, kept here as a record of one field) or "micro avg", then
\* "macro avg" and "weighted avg".
Classification ==
    LET stats == LabelStats
    IN ClassRows
       \o <<IF MicroIsAccuracy
            THEN [key |-> "accuracy", value |-> [accuracy |-> MicroAvg.precision]]
            ELSE [key |-> "micro avg", value |-> MicroAvg]>>
       \o <<[key |-> "macro avg",
             value |-> [precision |-> MacroOf(stats, "precision"),
                        recall |-> MacroOf(stats, "recall"),
                        f1 |-> MacroOf(stats, "f1"), support |-> SumSupport]],
            [key |-> "weighted avg",
             value |-> [precision |-> WeightedOf(stats, "precision"),
                        recall |-> WeightedOf(stats, "recall"),
                        f1 |-> WeightedOf(stats, "f1"), support |-> SumSupport]]>>

\* format_confusion_matrix: "[", one line of four blanks and the row per matrix
\* row, "]"; the model keeps the lines as a sequence.
format_confusion_matrix(c) ==
    <<"[">> \o [i \in 1 .. Len(c) |-> <<"    ", c[i]>>] \o <<"]">>

\* ------------------------------------------------------ evaluation actions
\* HSIEvaluation.__init__(param): the names are looked up once and self.res is
\* bound to a new empty dict, the only dict self.res ever refers to.
ResObject == 1

Construct ==
    /\ eval_pc = "new"
    /\ target_names' = get_target_names
    /\ self_res' = <<>>
    /\ eval_pc' = "ready"
    /\ UNCHANGED <<y_test, y_pred_test, data_sign, calls, returned, first_report,
                   reconVars, aaVars, sweepVars, mainVars, syncVars>>

\* np.max raises ValueError on an empty vector and classification_report
\* raises ValueError on vectors of different lengths (check_consistent_length),
\* both before any assignment to self.res.
Raises == Len(y_test) = 0 \/ Len(y_test) # Len(y_pred_test)

\* the items eval assigns to self.res (lines 60-65)
Report ==
    LET confusion == Confusion
        acc == AA_andEachClassAccuracy(confusion)
    IN [oa |-> Times(AccuracyScore, 100),
        aa |-> Times(acc[2], 100),
        kappa |-> Times(CohenKappa(confusion), 100),
        each_acc |-> [i \in 1 .. Len(acc[1]) |-> Times(acc[1][i], 100)],
        confusion |-> format_confusion_matrix(confusion),
        classification |-> Classification]

\* self.res when eval is left by an exception
ResAfterRaiseCleared == <<>>
ResAfterRaise == self_res

\* HSIEvaluation.eval(y_test, y_pred_test).  The six assignments overwrite the
\* items of the dict self.res in place, and "return self.res" hands out a
\* reference to that same dict.
Eval ==
    /\ eval_pc = "ready"
    /\ calls' = calls + 1
    /\ IF Raises
       THEN /\ eval_pc' = "raised"
            /\ self_res' = ResAfterRaise
            /\ UNCHANGED <<returned, first_report>>
       ELSE /\ eval_pc' = "returned"
            /\ self_res' = Report
            /\ returned' = Append(returned, ResObject)
            /\ first_report' = IF returned = <<>>
                               THEN [y_test |-> y_test, y_pred_test |-> y_pred_test,
                                     res |-> self_res']
                               ELSE first_report
    /\ UNCHANGED <<y_test, y_pred_test, data_sign, target_names, reconVars, aaVars,
                   sweepVars, mainVars, syncVars>>

\* the dict a returned reference refers to, as it is now
Deref(ref) == self_res

TwiceVectors == UNION {[1 .. n -> 0 .. MaxClassTwice] : n \in 0 .. MaxSamplesTwice}

\* The caller calls eval a second time on the same evaluator.
CallEval ==
    /\ eval_pc \in {"returned", "raised"}
    /\ calls = 1
    /\ y_test' \in TwiceVectors
    /\ y_pred_test' \in TwiceVectors
    /\ eval_pc' = "ready"
    /\ UNCHANGED <<self_res, data_sign, target_names, calls, returned, first_report,
                   reconVars, aaVars, sweepVars, mainVars, syncVars>>

\* ------------------------------------------- AA_andEachClassAccuracy alone
CallAA ==
    /\ aa_pc = "ready"
    /\ aa_result' = AA_andEachClassAccuracy(aa_matrix)
    /\ aa_pc' = "returned"
    /\ UNCHANGED <<aa_matrix, reconVars, evalVars, sweepVars, mainVars, syncVars>>

\* ------------------------------------------------ the sweep scripts' main
\* The four scripts differ in the swept config key, the identifiers they
\* print and the value list (line 152 of each).
SweepValues ==
    [run_depth_experiment |-> <<1, 2, 3, 4, 5>>,
     run_patch_size_experiments |-> <<3, 5, 7, 9, 11, 13, 15, 17, 19, 21>>,
     run_salinas_dim_experiment |-> <<64, 128, 256, 512>>,
     run_salinas_pca_components_experiment |-> <<9, 11, 13, 15, 17>>]

Scripts == DOMAIN SweepValues

\* A file is absent or holds a config: the value of the swept key and the
\* layout of the JSON text.
Absent == [exists |-> FALSE, param |-> 0, layout |-> ""]
ConfigText(v, l) == [exists |-> TRUE, param |-> v, layout |-> l]

\* the value the loop is at
CurrentValue == SweepValues[script][next_value]

\* the variables of the sweep that only run_experiment and the prompt touch
experimentVars == <<launched, last_response, results_dir, checkpoints_dir, trainer_writes,
                    interrupted>>

\* Line 144: shutil.copy2(config_file, backup_file).
Backup ==
    /\ sweep_pc = "start"
    /\ backup_file' = config_file
    /\ sweep_pc' = "backed_up"
    /\ UNCHANGED <<script, config_file, next_value, successful_experiments,
                   failed_experiments, config_at_start, pending, experimentVars,
                   reconVars, evalVars, aaVars, mainVars, syncVars>>

\* Lines 147-156: the output directories, the value list, the empty result
\* lists, and the try block is entered.
EnterLoop ==
    /\ sweep_pc = "backed_up"
    /\ successful_experiments' = <<>>
    /\ failed_experiments' = <<>>
    /\ next_value' = 1
    /\ sweep_pc' = "loop"
    /\ UNCHANGED <<script, config_file, backup_file, config_at_start, pending,
                   experimentVars, reconVars, evalVars, aaVars, mainVars, syncVars>>

UpdatedConfigKeepingKey(v) == ConfigText(config_file.param, "indent4")
\* update_*(config_path, value): load the JSON, set the swept key, dump it
\* again with indent=4.
UpdatedConfig(v) == ConfigText(v, "indent4")
\* a config file left behind by an update that raised while writing
Truncated == ConfigText(0, "truncated")

\* run_experiment, lines 88-104: the config is updated and read back, and
\* subprocess.run starts the training on the config file as it is then.
UpdateConfig ==
    /\ sweep_pc = "loop"
    /\ next_value <= Len(SweepValues[script])
    /\ config_file' = UpdatedConfig(CurrentValue)
    /\ launched' = Append(launched, [value |-> CurrentValue, config |-> config_file'.param])
    /\ sweep_pc' = "launch"
    /\ UNCHANGED <<script, backup_file, next_value, successful_experiments,
                   failed_experiments, config_at_start, pending, last_response,
                   results_dir, checkpoints_dir, trainer_writes, interrupted, reconVars,
                   evalVars, aaVars, mainVars, syncVars>>

\* The update is outside run_experiment's try: an exception it raises (an
\* unreadable or unwritable config) leaves main's try block through finally.
UpdateConfigRaises ==
    /\ sweep_pc = "loop"
    /\ next_value <= Len(SweepValues[script])
    /\ config_file' \in {config_file, Truncated}
    /\ pending' = "Exception"
    /\ sweep_pc' = "finally"
    /\ UNCHANGED <<script, backup_file, next_value, successful_experiments,
                   failed_experiments, config_at_start, experimentVars, reconVars,
                   evalVars, aaVars, mainVars, syncVars>>

\* what the try block of run_experiment (lines 103-132) can end in: return
\* code 0 and the files renamed; a non-zero return code; TimeoutExpired; any
\* other Exception, one raised by rename_output_files included
Outcomes == {"completed", "returncode", "TimeoutExpired", "Exception"}

\* run_experiment returns True only for a completed experiment
Success(outcome) == outcome = "completed"

\* A file of an output directory: the experiment whose training wrote it (0
\* for a file that was there before main started) and the identifier suffixes
\* its name has received, in order.
OutputFile(v) == [made_by |-> v, suffixes |-> <<>>]

\* The files a completed training can have written: main.py is not part of
\* the scripts, which only look for what is there afterwards.
TrainerOutputs ==
    IF trainer_writes = "always" THEN {{"result", "checkpoint"}}
    ELSE SUBSET {"result", "checkpoint"}

\* the directory after the training for value v has or has not written a file
AfterTraining(dir, wrote, v) == IF wrote THEN Append(dir, OutputFile(v)) ELSE dir

\* find_latest_file(directory, pattern): the matching file of the greatest
\* ctime, None (here 0) without a matching file.  The directories of the model
\* hold matching files only, oldest first; a renamed file still matches the
\* pattern, its suffix being put in front of the extension.
find_latest_file(dir) == Len(dir)

\* rename_output_files, one of its two halves: the latest matching file gets
\* the identifier of value v appended to its base name (shutil.move).
RenameLatest(dir, v) ==
    LET latest == find_latest_file(dir)
    IN IF latest = 0 THEN dir
       ELSE [dir EXCEPT ![latest].suffixes = Append(@, v)]

\* Lines 103-132 and 157-163: the experiment runs and main records it.
RunExperiment ==
    /\ sweep_pc = "launch"
    /\ \E outcome \in Outcomes :
          IF Success(outcome)
          THEN /\ \E wrote \in TrainerOutputs :
                    /\ results_dir' =
                          RenameLatest(AfterTraining(results_dir, "result" \in wrote,
                                                     CurrentValue), CurrentValue)
                    /\ checkpoints_dir' =
                          RenameLatest(AfterTraining(checkpoints_dir, "checkpoint" \in wrote,
                                                     CurrentValue), CurrentValue)
               /\ successful_experiments' = Append(successful_experiments, CurrentValue)
               /\ next_value' = next_value + 1
               /\ sweep_pc' = "loop"
               /\ UNCHANGED failed_experiments
          ELSE /\ failed_experiments' = Append(failed_experiments, CurrentValue)
               /\ sweep_pc' = "prompt"
               /\ UNCHANGED <<successful_experiments, next_value, results_dir,
                              checkpoints_dir>>
    /\ UNCHANGED <<script, config_file, backup_file, config_at_start, pending,
                   launched, last_response, trainer_writes, interrupted, reconVars,
                   evalVars, aaVars, mainVars, syncVars>>

\* str.lower() on the answers of the bounded runs
Lower(response) == IF response = "Y" THEN "y" ELSE response
Responses == {"y", "Y", "n", ""}

\* Lines 166-169: the prompt after a failed experiment.
Answer ==
    /\ sweep_pc = "prompt"
    /\ \E response \in Responses :
          /\ last_response' = response
          /\ IF Lower(response) # "y"
             THEN /\ sweep_pc' = "finally"
                  /\ UNCHANGED next_value
             ELSE /\ sweep_pc' = "loop"
                  /\ next_value' = next_value + 1
    /\ UNCHANGED <<script, config_file, backup_file, successful_experiments,
                   failed_experiments, config_at_start, pending, launched, results_dir,
                   checkpoints_dir, trainer_writes, interrupted, reconVars, evalVars,
                   aaVars, mainVars, syncVars>>

\* Lines 175-176: Ctrl-C while the experiment runs or while the prompt waits;
\* KeyboardInterrupt is no Exception, so run_experiment lets it pass and main
\* catches it.
KeyboardInterrupt ==
    /\ sweep_pc \in {"launch", "prompt"}
    /\ interrupted' = sweep_pc
    /\ sweep_pc' = "finally"
    /\ UNCHANGED <<script, config_file, backup_file, next_value, successful_experiments,
                   failed_experiments, config_at_start, pending, launched, last_response,
                   results_dir, checkpoints_dir, trainer_writes, reconVars, evalVars,
                   aaVars, mainVars, syncVars>>

\* Line 156: the value list is exhausted.
LoopEnd ==
    /\ sweep_pc = "loop"
    /\ next_value > Len(SweepValues[script])
    /\ sweep_pc' = "finally"
    /\ UNCHANGED <<script, config_file, backup_file, next_value, successful_experiments,
                   failed_experiments, config_at_start, pending, experimentVars,
                   reconVars, evalVars, aaVars, mainVars, syncVars>>

RestoredStale == config_file
\* the content shutil.copy2(backup_file, config_file) leaves in the config file
Restored == backup_file

\* Lines 178-200: the finally block restores the config, removes the backup
\* and prints the summary; a pending exception then leaves main.
Restore ==
    /\ sweep_pc = "finally"
    /\ config_file' = Restored
    /\ backup_file' = Absent
    /\ sweep_pc' = IF pending = "" THEN "done" ELSE "raised"
    /\ UNCHANGED <<script, next_value, successful_experiments, failed_experiments,
                   config_at_start, pending, experimentVars, reconVars, evalVars, aaVars,
                   mainVars, syncVars>>

\* ---------------------------------------------------- generate_maps' main
\* Lines 103-111: the lists and the config table of 'all' mode.
datasets == <<"IndianPine", "Pavia", "Houston">>
models == <<"Hyper2DRoPE", "LSGA_ViT", "HiT", "SpectralFormer", "SQSFormer">>
configs ==
    [Hyper2DRoPE |-> "hyper2Drope.json",
     LSGA_ViT |-> "lsga_vit.json",
     HiT |-> "hit.json",
     SpectralFormer |-> "spectralformer.json",
     SQSFormer |-> "sqsformer.json"]

\* The file names the two modes build; both are joined to the same
\* CHECKPOINT_PATH_PREFIX, which the model leaves out.
\* line 95: f"{args.dataset}_{args.model}__best.pth"
SingleCheckpointPath(dataset, model) == dataset \o "_" \o model \o "__best.pth"
\* line 115: f"{dataset}_{model}_best.pth"
AllCheckpointPath(dataset, model) == dataset \o "_" \o model \o "_best.pth"

\* os.path.exists(checkpoint_path)
Exists(path) == path \in checkpoints

\* A call of run_inference either completes or raises an Exception (a missing
\* config key, a failing data loader, an IndexError of the reconstruction, ...)
InferenceCall(config, dataset, model, path, outcome) ==
    [config |-> config, dataset |-> dataset, model |-> model, checkpoint_path |-> path,
     outcome |-> outcome]

\* Lines 93-97: 'single' mode looks for its checkpoint.
SingleCheck ==
    /\ gm_pc = "start"
    /\ args.mode = "single"
    /\ IF Exists(SingleCheckpointPath(args.dataset, args.model))
       THEN /\ gm_pc' = "single_inference"
            /\ UNCHANGED gm_error
       ELSE /\ gm_pc' = "raised"
            /\ gm_error' = "FileNotFoundError"
    /\ UNCHANGED <<args, checkpoints, dataset_i, model_i, visited, inference_calls,
                   syncVars, reconVars, evalVars, aaVars, sweepVars>>

\* Line 100: 'single' mode runs the inference; nothing catches what it raises.
SingleInference ==
    /\ gm_pc = "single_inference"
    /\ \E outcome \in {"completed", "Exception"} :
          /\ inference_calls' =
                Append(inference_calls,
                       InferenceCall(args.config, args.dataset, args.model,
                                     SingleCheckpointPath(args.dataset, args.model), outcome))
          /\ gm_pc' = IF outcome = "completed" THEN "done" ELSE "raised"
          /\ gm_error' = IF outcome = "completed" THEN "" ELSE outcome
    /\ UNCHANGED <<args, checkpoints, dataset_i, model_i, visited, syncVars, reconVars,
                   evalVars, aaVars, sweepVars>>

\* Lines 102-113: 'all' mode enters its loops.
AllStart ==
    /\ gm_pc = "start"
    /\ args.mode = "all"
    /\ dataset_i' = 1
    /\ model_i' = 1
    /\ gm_pc' = "loop"
    /\ UNCHANGED <<args, checkpoints, visited, inference_calls, gm_error, syncVars,
                   reconVars, evalVars, aaVars, sweepVars>>

\* the loop variables after the body of the inner loop
NextDataset == IF model_i < Len(models) THEN dataset_i ELSE dataset_i + 1
NextModel == IF model_i < Len(models) THEN model_i + 1 ELSE 1

\* Lines 113-116: the loops are at a pair and look for its checkpoint; a pair
\* without one is passed over.
AllVisit ==
    /\ gm_pc = "loop"
    /\ dataset_i <= Len(datasets)
    /\ LET dataset == datasets[dataset_i]
           model == models[model_i]
       IN /\ visited' = Append(visited, <<dataset, model>>)
          /\ IF Exists(AllCheckpointPath(dataset, model))
             THEN /\ gm_pc' = "all_inference"
                  /\ UNCHANGED <<dataset_i, model_i>>
             ELSE /\ gm_pc' = "loop"
                  /\ dataset_i' = NextDataset
                  /\ model_i' = NextModel
    /\ UNCHANGED <<args, checkpoints, inference_calls, gm_error, syncVars, reconVars,
                   evalVars, aaVars, sweepVars>>

PcAfterPairExceptionEscapes(outcome) == IF outcome = "Exception" THEN "raised" ELSE "loop"
\* lines 117-122: "except Exception" prints the error and the loop goes on
PcAfterPair(outcome) == "loop"

\* Lines 117-122: the inference of the pair the loops are at.
AllInference ==
    /\ gm_pc = "all_inference"
    /\ \E outcome \in {"completed", "Exception"} :
          /\ inference_calls' =
                Append(inference_calls,
                       InferenceCall(configs[models[model_i]], datasets[dataset_i],
                                     models[model_i],
                                     AllCheckpointPath(datasets[dataset_i], models[model_i]),
                                     outcome))
          /\ gm_pc' = PcAfterPair(outcome)
    /\ dataset_i' = NextDataset
    /\ model_i' = NextModel
    /\ UNCHANGED <<args, checkpoints, visited, gm_error, syncVars, reconVars, evalVars,
                   aaVars, sweepVars>>

\* Line 113: the outer loop is over.
AllEnd ==
    /\ gm_pc = "loop"
    /\ dataset_i > Len(datasets)
    /\ gm_pc' = "done"
    /\ UNCHANGED <<args, checkpoints, dataset_i, model_i, visited, inference_calls,
                   gm_error, syncVars, reconVars, evalVars, aaVars, sweepVars>>

\* ------------------------------------------------------- sync_to_github
\* subprocess.run of a command inside a stage, with its return code being 0 or not
Ran(stage, command, ok) ==
    commands' = Append(commands, [stage |-> stage, command |-> command, ok |-> ok])

\* A stage function returns True: main goes on.
StageSucceeds(stage, next) ==
    /\ stages' = Append(stages, [stage |-> stage, returned |-> TRUE])
    /\ sync_pc' = next
    /\ UNCHANGED sync_result

\* A stage function returns False: main returns False and the process exits with 1.
StageFails(stage) ==
    /\ stages' = Append(stages, [stage |-> stage, returned |-> FALSE])
    /\ sync_pc' = "exited"
    /\ sync_result' = [returned |-> "False", exit_code |-> 1]

\* The stage goes on with its next command.
StageGoesOn(next) ==
    /\ sync_pc' = next
    /\ UNCHANGED <<stages, sync_result>>

\* main, lines 193-197: the check for main.py.
CheckDirectory ==
    /\ sync_pc = "start"
    /\ IF sync_env.main_py
       THEN /\ sync_pc' = "git_setup"
            /\ UNCHANGED sync_result
       ELSE /\ sync_pc' = "exited"
            /\ sync_result' = [returned |-> "False", exit_code |-> 1]
    /\ UNCHANGED <<stages, commands, sync_env, mainVars, reconVars, evalVars, aaVars, sweepVars>>

\* setup_git_repository, line 83: is there a .git directory?
CheckGitDirectory ==
    /\ sync_pc = "git_setup"
    /\ IF sync_env.git_dir
       THEN StageSucceeds("git", "remote_setup")
       ELSE StageGoesOn("git_init")
    /\ UNCHANGED <<commands, sync_env, mainVars, reconVars, evalVars, aaVars, sweepVars>>

\* setup_git_repository, lines 85-86
GitInit ==
    /\ sync_pc = "git_init"
    /\ \E ok \in BOOLEAN :
          /\ Ran("git", "git init", ok)
          /\ IF ok THEN StageGoesOn("git_branch") ELSE StageFails("git")
    /\ UNCHANGED <<sync_env, mainVars, reconVars, evalVars, aaVars, sweepVars>>

\* setup_git_repository, lines 88-93
GitBranch ==
    /\ sync_pc = "git_branch"
    /\ \E ok \in BOOLEAN :
          /\ Ran("git", "git branch -M main", ok)
          /\ IF ok THEN StageSucceeds("git", "remote_setup") ELSE StageFails("git")
    /\ UNCHANGED <<sync_env, mainVars, reconVars, evalVars, aaVars, sweepVars>>

\* setup_github_remote, lines 100-116 and 140-145: is there a remote, and if
\* not, what is the user's answer?
CheckRemote ==
    /\ sync_pc = "remote_setup"
    /\ Ran("remote", "git remote get-url origin", sync_env.remote)
    /\ IF sync_env.remote THEN StageSucceeds("remote", "sync_add")
       ELSE IF sync_env.username = "" THEN StageFails("remote")
       ELSE StageGoesOn("remote_ssh")
    /\ UNCHANGED <<sync_env, mainVars, reconVars, evalVars, aaVars, sweepVars>>

\* setup_github_remote, lines 118-126
AddSshRemote ==
    /\ sync_pc = "remote_ssh"
    /\ \E ok \in BOOLEAN :
          /\ Ran("remote", "git remote add origin ssh_url", ok)
          /\ IF ok THEN StageSucceeds("remote", "sync_add") ELSE StageGoesOn("remote_remove")
    /\ UNCHANGED <<sync_env, mainVars, reconVars, evalVars, aaVars, sweepVars>>

\* setup_github_remote, lines 127-130: the result of the removal is not looked at
RemoveRemote ==
    /\ sync_pc = "remote_remove"
    /\ \E ok \in BOOLEAN : Ran("remote", "git remote remove origin", ok)
    /\ StageGoesOn("remote_https")
    /\ UNCHANGED <<sync_env, mainVars, reconVars, evalVars, aaVars, sweepVars>>

\* setup_github_remote, lines 131-139
AddHttpsRemote ==
    /\ sync_pc = "remote_https"
    /\ \E ok \in BOOLEAN :
          /\ Ran("remote", "git remote add origin https_url", ok)
          /\ IF ok THEN StageSucceeds("remote", "sync_add") ELSE StageFails("remote")
    /\ UNCHANGED <<sync_env, mainVars, reconVars, evalVars, aaVars, sweepVars>>

\* sync_repository, lines 149-156: .gitignore is written, the files are staged
GitAdd ==
    /\ sync_pc = "sync_add"
    /\ \E ok \in BOOLEAN :
          /\ Ran("sync", "git add .", ok)
          /\ IF ok THEN StageGoesOn("sync_status") ELSE StageFails("sync")
    /\ UNCHANGED <<sync_env, mainVars, reconVars, evalVars, aaVars, sweepVars>>

PcAfterStatusAlwaysPush(changes) == IF changes THEN "sync_commit" ELSE "sync_push"
\* sync_repository, lines 161 and 180: is the output of git status empty?
PcAfterStatus(changes) == IF changes THEN "sync_commit" ELSE "sync_push_no_commits"

\* sync_repository, lines 159-161
GitStatus ==
    /\ sync_pc = "sync_status"
    /\ Ran("sync", "git status --porcelain", TRUE)
    /\ StageGoesOn(PcAfterStatus(sync_env.changes))
    /\ UNCHANGED <<sync_env, mainVars, reconVars, evalVars, aaVars, sweepVars>>

\* sync_repository, lines 163-166
GitCommit ==
    /\ sync_pc = "sync_commit"
    /\ \E ok \in BOOLEAN :
          /\ Ran("sync", "git commit", ok)
          /\ IF ok THEN StageGoesOn("sync_push") ELSE StageFails("sync")
    /\ UNCHANGED <<sync_env, mainVars, reconVars, evalVars, aaVars, sweepVars>>

\* sync_repository, lines 168-174
GitPush ==
    /\ sync_pc = "sync_push"
    /\ \E ok \in BOOLEAN :
          /\ Ran("sync", "git push -u origin main", ok)
          /\ IF ok THEN StageSucceeds("sync", "finish") ELSE StageGoesOn("sync_force")
    /\ UNCHANGED <<sync_env, mainVars, reconVars, evalVars, aaVars, sweepVars>>

\* sync_repository, lines 175-179 and 185
GitForcePush ==
    /\ sync_pc = "sync_force"
    /\ \E ok \in BOOLEAN :
          /\ Ran("sync", "git push -u origin main --force", ok)
          /\ IF ok THEN StageSucceeds("sync", "finish") ELSE StageFails("sync")
    /\ UNCHANGED <<sync_env, mainVars, reconVars, evalVars, aaVars, sweepVars>>

\* sync_repository, lines 180-185: the result of this push is not looked at
GitPushNoCommits ==
    /\ sync_pc = "sync_push_no_commits"
    /\ \E ok \in BOOLEAN : Ran("sync", "git push origin main", ok)
    /\ StageSucceeds("sync", "finish")
    /\ UNCHANGED <<sync_env, mainVars, reconVars, evalVars, aaVars, sweepVars>>

\* main, lines 214-230: main returns True and the process ends normally.
Finish ==
    /\ sync_pc = "finish"
    /\ sync_pc' = "exited"
    /\ sync_result' = [returned |-> "True", exit_code |-> 0]
    /\ UNCHANGED <<stages, commands, sync_env, mainVars, reconVars, evalVars, aaVars, sweepVars>>

\* ------------------------------------------------- reconstruction actions
BuildIndicesStaleIterator ==
    /\ pc = "start"
    /\ pred_map' = ZeroMap
    /\ gt_map' = ZeroMap
    /\ all_indices' = CombinedIndices
    /\ cursor' = IF run = 1 THEN 1 ELSE cursor
    /\ pc' = "write"
    /\ UNCHANGED <<original_shape, index2pos_train, index2pos_test, pred_labels,
                   gt_labels, run, first_maps, evalVars, aaVars, sweepVars, mainVars, syncVars>>

\* Lines 59-73: the empty maps, the combined index space, the start of the loop.
BuildIndices ==
    /\ pc = "start"
    /\ pred_map' = ZeroMap
    /\ gt_map' = ZeroMap
    /\ all_indices' = CombinedIndices
    /\ cursor' = 1
    /\ pc' = "write"
    /\ UNCHANGED <<original_shape, index2pos_train, index2pos_test, pred_labels,
                   gt_labels, run, first_maps, evalVars, aaVars, sweepVars, mainVars, syncVars>>

\* Lines 73-76: one iteration of the write loop.
WriteEntry ==
    /\ pc = "write"
    /\ cursor <= Len(all_indices)
    /\ LET w == WriteOne(pred_map, gt_map, all_indices[cursor])
       IN /\ pred_map' = w.pred
          /\ gt_map' = w.gt
          /\ pc' = IF w.raised THEN "error" ELSE "write"
          /\ cursor' = IF w.raised THEN cursor ELSE cursor + 1
    /\ UNCHANGED <<original_shape, index2pos_train, index2pos_test, pred_labels,
                   gt_labels, all_indices, run, first_maps, evalVars, aaVars, sweepVars,
                   mainVars, syncVars>>

\* Line 78: the loop is over and the maps are handed to save_classification_maps.
SaveMaps ==
    /\ pc = "write"
    /\ cursor > Len(all_indices)
    /\ pc' = "done"
    /\ UNCHANGED <<original_shape, index2pos_train, index2pos_test, pred_labels,
                   gt_labels, pred_map, gt_map, all_indices, cursor, run, first_maps,
                   evalVars, aaVars, sweepVars, mainVars, syncVars>>

\* run_inference is called again in the same process on the same inputs.
CallAgain ==
    /\ pc = "done"
    /\ run = 1
    /\ run' = 2
    /\ first_maps' = <<pred_map, gt_map>>
    /\ pc' = "start"
    /\ UNCHANGED <<original_shape, index2pos_train, index2pos_test, pred_labels,
                   gt_labels, pred_map, gt_map, all_indices, cursor, evalVars, aaVars, sweepVars,
                   mainVars, syncVars>>

\* ------------------------------------------------------------- the inputs
\* The reconstruction copies labels and never computes on them beyond "+ 1", so
\* the bounded runs draw them from the two ends of the label range.
Labels == {0, MaxLabel}
LabelVectors == UNION {[1 .. n -> Labels] : n \in 0 .. MaxLen}

\* Positions are only ever compared and used as subscripts, so the bounded runs
\* draw them from two opposite corners of the image.
GridPositions == {<<0, 0>>, <<Height - 1, Width - 1>>}
\* positions one step outside the grid on either side, too
WidePositions == ((0 - 1) .. Height) \X ((0 - 1) .. Width)

\* Ordered index maps of at most n entries with pairwise different local indices.
IndexMaps(n, keys, positions) ==
    {m \in UNION {[1 .. k -> [idx : keys, pos : positions]] : k \in 0 .. n} :
        \A a, b \in 1 .. Len(m) : a # b => m[a].idx # m[b].idx}

\* no evaluation under way
EvalIdle ==
    /\ y_test = <<>>
    /\ y_pred_test = <<>>
    /\ self_res = <<>>
    /\ eval_pc = "idle"
    /\ data_sign = ""
    /\ target_names = None
    /\ calls = 0
    /\ returned = <<>>
    /\ first_report = <<>>

\* no call of AA_andEachClassAccuracy on its own under way
AAIdle ==
    /\ aa_matrix = <<>>
    /\ aa_result = <<>>
    /\ aa_pc = "idle"

\* no sweep script running
SweepIdle ==
    /\ script = ""
    /\ config_file = Absent
    /\ backup_file = Absent
    /\ sweep_pc = "idle"
    /\ next_value = 1
    /\ successful_experiments = <<>>
    /\ failed_experiments = <<>>
    /\ config_at_start = Absent
    /\ pending = ""
    /\ launched = <<>>
    /\ last_response = "<none>"
    /\ results_dir = <<>>
    /\ checkpoints_dir = <<>>
    /\ trainer_writes = "always"
    /\ interrupted = ""

\* generate_maps' main not running
MainIdle ==
    /\ args = [mode |-> "", dataset |-> "", model |-> "", config |-> ""]
    /\ checkpoints = {}
    /\ gm_pc = "idle"
    /\ dataset_i = 1
    /\ model_i = 1
    /\ visited = <<>>
    /\ inference_calls = <<>>
    /\ gm_error = ""

\* sync_to_github not running
SyncIdle ==
    /\ sync_env = [main_py |-> FALSE, git_dir |-> FALSE, remote |-> FALSE, username |-> "",
                   changes |-> FALSE]
    /\ sync_pc = "idle"
    /\ stages = <<>>
    /\ commands = <<>>
    /\ sync_result = [returned |-> "", exit_code |-> 0]

\* no reconstruction under way
ReconIdle ==
    /\ original_shape = <<Height, Width>>
    /\ index2pos_train = <<>>
    /\ index2pos_test = <<>>
    /\ gt_labels = <<>>
    /\ pred_labels = <<>>
    /\ pred_map = ZeroMap
    /\ gt_map = ZeroMap
    /\ all_indices = <<>>
    /\ cursor = 1
    /\ pc = "idle"
    /\ run = 1
    /\ first_maps = <<>>

EvalVectors == UNION {[1 .. n -> 0 .. MaxClass] : n \in 0 .. MaxSamples}

\* the seven known dataset identifiers and one that is not known
KnownDataSigns == {"IndianPine", "Pavia", "Houston", "Salinas", "WHHH", "KSC", "Plastic"}
DataSigns == KnownDataSigns \cup {"Unknown"}
\* eval uses the names only as row keys, so the runs of single calls draw the
\* identifier from one known dataset and the unknown one
EvalDataSigns == {"Pavia", "Unknown"}

\* An evaluator about to be constructed and called on two label vectors.
InitEvaluator(signs, vectors) ==
    /\ y_test \in vectors
    /\ y_pred_test \in vectors
    /\ data_sign \in signs
    /\ target_names = None
    /\ self_res = <<>>
    /\ eval_pc = "new"
    /\ calls = 0
    /\ returned = <<>>
    /\ first_report = <<>>
    /\ ReconIdle
    /\ AAIdle
    /\ SweepIdle
    /\ MainIdle
    /\ SyncIdle

InitEval == InitEvaluator(EvalDataSigns, EvalVectors)

InitEvalTwice == InitEvaluator(DataSigns, TwiceVectors)

AAMatrices ==
    UNION {[1 .. n -> [1 .. n -> 0 .. MaxCell]] : n \in 1 .. MaxDim}

InitAA ==
    /\ aa_matrix \in AAMatrices
    /\ aa_result = <<>>
    /\ aa_pc = "ready"
    /\ ReconIdle
    /\ EvalIdle
    /\ SweepIdle
    /\ MainIdle
    /\ SyncIdle

\* main() of one of the sweep scripts starts on an existing config file whose
\* swept key holds the first value of the list or a value that is not in it.
InitSweepOn(scripts, layouts, dirs, writes) ==
    /\ script \in scripts
    /\ config_file \in {ConfigText(v, l) : v \in {0, SweepValues[script][1]},
                                          l \in layouts}
    /\ config_at_start = config_file
    /\ backup_file = Absent
    /\ sweep_pc = "start"
    /\ next_value = 1
    /\ successful_experiments = <<>>
    /\ failed_experiments = <<>>
    /\ pending = ""
    /\ launched = <<>>
    /\ last_response = "<none>"
    /\ results_dir \in dirs
    /\ checkpoints_dir \in dirs
    /\ trainer_writes = writes
    /\ interrupted = ""
    /\ ReconIdle
    /\ EvalIdle
    /\ AAIdle
    /\ MainIdle
    /\ SyncIdle

\* the four scripts, with empty output directories and a training that writes
\* both of its files whenever it completes
InitSweep == InitSweepOn(Scripts, {"indent4", "hand-written"}, {<<>>}, "always")

\* the two scripts with the shortest value lists, each output directory empty
\* or holding one file of an earlier run, with a training that may complete
\* without writing a result file or a checkpoint
InitSweepFiles ==
    InitSweepOn({"run_depth_experiment", "run_salinas_dim_experiment"}, {"hand-written"},
                {<<>>, <<OutputFile(0)>>}, "sometimes")

\* the file names either mode can look for
CheckpointNames ==
    {AllCheckpointPath(datasets[d], models[m]) : d \in 1 .. Len(datasets), m \in 1 .. Len(models)}
        \cup {SingleCheckpointPath(datasets[d], models[m]) :
                 d \in 1 .. Len(datasets), m \in 1 .. Len(models)}

RECURSIVE UpTo(_, _)
\* the subsets of S of at most k elements
UpTo(S, k) ==
    IF k = 0 THEN {{}}
    ELSE LET smaller == UpTo(S, k - 1)
         IN smaller \cup {T \cup {x} : T \in smaller, x \in S}

\* argparse (lines 82-91): 'all' mode with the defaults, or 'single' mode on
\* any dataset and model with the default config or the model's own
CommandLines ==
    {[mode |-> "all", dataset |-> "IndianPine", model |-> "Hyper2DRoPE",
      config |-> "hyper2Drope.json"]}
        \cup UNION {{[mode |-> "single", dataset |-> datasets[d], model |-> models[m],
                       config |-> c] : c \in {"hyper2Drope.json", configs[models[m]]}} :
                        d \in 1 .. Len(datasets), m \in 1 .. Len(models)}

\* generate_maps' main() starts on a checkpoint directory of a few files.
InitMain ==
    /\ args \in CommandLines
    /\ checkpoints \in UpTo(CheckpointNames, MaxFiles)
    /\ gm_pc = "start"
    /\ dataset_i = 1
    /\ model_i = 1
    /\ visited = <<>>
    /\ inference_calls = <<>>
    /\ gm_error = ""
    /\ SyncIdle
    /\ ReconIdle
    /\ EvalIdle
    /\ AAIdle
    /\ SweepIdle

\* sync_to_github starts in some directory: with or without main.py, a .git
\* directory, a remote named origin, changes to commit; the user will answer
\* the prompt for a username with a name or with nothing.
InitSync ==
    /\ sync_env \in [main_py : BOOLEAN, git_dir : BOOLEAN, remote : BOOLEAN,
                     username : {"", "zirakkk"}, changes : BOOLEAN]
    /\ sync_pc = "start"
    /\ stages = <<>>
    /\ commands = <<>>
    /\ sync_result = [returned |-> "", exit_code |-> 0]
    /\ MainIdle
    /\ ReconIdle
    /\ EvalIdle
    /\ AAIdle
    /\ SweepIdle

InitRecon(trainMaps, testMaps) ==
    /\ original_shape = <<Height, Width>>
    /\ index2pos_train \in trainMaps
    /\ index2pos_test \in testMaps
    /\ gt_labels \in LabelVectors
    /\ pred_labels \in {v \in LabelVectors : Len(v) = Len(gt_labels)}
    /\ pred_map = ZeroMap
    /\ gt_map = ZeroMap
    /\ all_indices = <<>>
    /\ cursor = 1
    /\ pc = "start"
    /\ run = 1
    /\ first_maps = <<>>
    /\ EvalIdle
    /\ AAIdle
    /\ MainIdle
    /\ SyncIdle
    /\ SweepIdle
    /\ MainIdle
    /\ SyncIdle

\* The worked example of the specification's section 8.
InitExample ==
    /\ original_shape = <<2, 2>>
    /\ index2pos_train = <<[idx |-> 0, pos |-> <<0, 0>>], [idx |-> 1, pos |-> <<0, 1>>]>>
    /\ index2pos_test = <<[idx |-> 0, pos |-> <<1, 0>>]>>
    /\ gt_labels = <<2, 0, 1>>
    /\ pred_labels = <<2, 1, 1>>
    /\ pred_map = ZeroMap
    /\ gt_map = ZeroMap
    /\ all_indices = <<>>
    /\ cursor = 1
    /\ pc = "start"
    /\ run = 1
    /\ first_maps = <<>>
    /\ EvalIdle
    /\ AAIdle
    /\ MainIdle
    /\ SyncIdle
    /\ SweepIdle
    /\ MainIdle
    /\ SyncIdle

Init ==
    \/ InitRecon(IndexMaps(MaxTrain, 0 .. MaxKey, GridPositions),
                 IndexMaps(MaxTest, 0 .. MaxKey, GridPositions))
    \/ InitExample

Next ==
    \/ BuildIndices
    \/ WriteEntry
    \/ SaveMaps
    \/ CallAgain

Spec == Init /\ [][Next]_vars

\* ------------------------------------------------ reconstruction: claims
N == Len(pred_labels)

\* the entries of the combined index space that the write loop writes
Written(n) == n \in 1 .. Len(all_indices) /\ all_indices[n].idx < N
\* the entries it skips
Skipped(n) == n \in 1 .. Len(all_indices) /\ all_indices[n].idx >= N

PositionsOf(m) == {m[n].pos : n \in 1 .. Len(m)}
DistinctPositions ==
    Cardinality(PositionsOf(index2pos_train) \cup PositionsOf(index2pos_test))
        = Len(index2pos_train) + Len(index2pos_test)

\* C1 (as stated): when the pixel positions are pairwise distinct, after the
\* reconstruction every training entry k -> (r,c) with k < N has
\* gt_map[r,c] = true_labels[k] + 1 and pred_map[r,c] = pred_labels[k] + 1, and
\* every test entry k -> (r,c) with train_size + k < N has
\* gt_map[r,c] = true_labels[train_size + k] + 1 and
\* pred_map[r,c] = pred_labels[train_size + k] + 1.
C1_EntriesLandOnTheirLabels ==
    (pc = "done" /\ DistinctPositions) =>
        /\ \A n \in 1 .. Len(index2pos_train) :
              LET e == index2pos_train[n]
              IN e.idx < N =>
                    /\ gt_map[e.pos] = gt_labels[e.idx + 1] + 1
                    /\ pred_map[e.pos] = pred_labels[e.idx + 1] + 1
        /\ \A n \in 1 .. Len(index2pos_test) :
              LET e == index2pos_test[n]
                  k == Len(index2pos_train) + e.idx
              IN k < N =>
                    /\ gt_map[e.pos] = gt_labels[k + 1] + 1
                    /\ pred_map[e.pos] = pred_labels[k + 1] + 1

IsExample ==
    /\ original_shape = <<2, 2>>
    /\ index2pos_train = <<[idx |-> 0, pos |-> <<0, 0>>], [idx |-> 1, pos |-> <<0, 1>>]>>
    /\ index2pos_test = <<[idx |-> 0, pos |-> <<1, 0>>]>>
    /\ gt_labels = <<2, 0, 1>>
    /\ pred_labels = <<2, 1, 1>>

\* C2: on the worked example the reconstruction ends with
\* gt_map = [[3,1],[2,0]] and pred_map = [[3,2],[2,0]].
C2_WorkedExample ==
    (IsExample /\ pc = "done") =>
        /\ gt_map = (<<0, 0>> :> 3 @@ <<0, 1>> :> 1 @@ <<1, 0>> :> 2 @@ <<1, 1>> :> 0)
        /\ pred_map = (<<0, 0>> :> 3 @@ <<0, 1>> :> 2 @@ <<1, 0>> :> 2 @@ <<1, 1>> :> 0)

C2_Witness == IsExample /\ pc = "done" /\ run = 1 /\ pred_map[<<1, 0>>] = 2

C4_NoKeyCollision ==
    pc \in {"write", "done"} =>
        /\ Len(all_indices) = Len(index2pos_train) + Len(index2pos_test)
        /\ \A n \in 1 .. Len(index2pos_train) :
              \E m \in 1 .. Len(all_indices) : all_indices[m] = index2pos_train[n]

\* C5: an iteration of the write loop on an entry whose combined index is at or
\* beyond the length of the label vectors raises nothing, leaves both maps as
\* they were and goes on to the next entry.
C5_OutOfBoundsEntrySkipped ==
    [][(pc = "write" /\ cursor <= Len(all_indices) /\ all_indices[cursor].idx >= N)
          => (pred_map' = pred_map /\ gt_map' = gt_map /\ pc' = "write"
              /\ cursor' = cursor + 1)]_vars

C5_Witness ==
    /\ pc = "done"
    /\ \E n, m \in 1 .. Len(all_indices) :
          /\ n < m
          /\ Skipped(n)
          /\ pred_map[all_indices[n].pos] = 0
          /\ Written(m)
          /\ pred_map[all_indices[m].pos] = pred_labels[all_indices[m].idx + 1] + 1

\* the orders in which the entries of the combined index space can be written
Orders(d) == Permutations(1 .. Len(d))
InOrder(d, f) == [n \in 1 .. Len(d) |-> d[f[n]]]

SameMapsInEveryOrder ==
    \A f \in Orders(all_indices) :
        LET w == WriteAll(ZeroMap, ZeroMap, InOrder(all_indices, f))
        IN w.pred = pred_map /\ w.gt = gt_map

\* C6 (as stated): the write loop yields the same two maps for every order of
\* the entries of the combined index space, for all index maps (stated of the
\* maps a call of run_inference ends with; a repeated call has the same inputs).
C6_AnyOrderSameMaps == (pc = "done" /\ run = 1) => SameMapsInEveryOrder

\* two written entries name one pixel and carry different labels
Clash ==
    \E n, m \in 1 .. Len(all_indices) :
        /\ Written(n) /\ Written(m)
        /\ all_indices[n].pos = all_indices[m].pos
        /\ \/ pred_labels[all_indices[n].idx + 1] # pred_labels[all_indices[m].idx + 1]
           \/ gt_labels[all_indices[n].idx + 1] # gt_labels[all_indices[m].idx + 1]

\* C6 (amended): the write loop yields the same two maps for every order of the
\* entries of the combined index space, provided no two entries with an
\* in-bounds combined index name the same pixel with different labels.
C6_AnyOrderSameMapsUnlessClash ==
    (pc = "done" /\ run = 1 /\ ~Clash) => SameMapsInEveryOrder

C6_Witness ==
    /\ pc = "done"
    /\ run = 1
    /\ ~Clash
    /\ \E n, m \in 1 .. Len(all_indices) :
          /\ n # m /\ Written(n) /\ Written(m)
          /\ all_indices[n].pos # all_indices[m].pos
          /\ pred_map[all_indices[n].pos] # pred_map[all_indices[m].pos]

InGrid(pos) == pos \in Pixels

\* C7 (as stated): an entry whose row or column lies outside the image grid
\* makes the reconstruction raise and writes no cell: the write loop never gets
\* past such an entry whose labels it looks up.
C7_OutOfGridRaises ==
    pc \in {"write", "done", "error"} =>
        \A n \in 1 .. Len(all_indices) :
            (n < cursor /\ Written(n)) => InGrid(all_indices[n].pos)

\* C8: at every pixel pred_map is non-background exactly when gt_map is, and a
\* non-background pixel holds pred_labels[k] + 1 and true_labels[k] + 1 for one
\* and the same combined index k.
C8_MapsPositionallyConsistent ==
    \A p \in Pixels :
        /\ pred_map[p] # 0 <=> gt_map[p] # 0
        /\ pred_map[p] # 0 =>
              \E n \in 1 .. Len(all_indices) :
                  /\ Written(n)
                  /\ all_indices[n].pos = p
                  /\ pred_map[p] = pred_labels[all_indices[n].idx + 1] + 1
                  /\ gt_map[p] = gt_labels[all_indices[n].idx + 1] + 1

C8_Witness ==
    /\ pc = "done"
    /\ \E p \in Pixels : pred_map[p] # 0 /\ gt_map[p] # 0 /\ pred_map[p] # gt_map[p]
    /\ \E p \in Pixels : pred_map[p] = 0 /\ gt_map[p] = 0

InitOutOfGrid ==
    InitRecon(IndexMaps(1, 0 .. 1, WidePositions), IndexMaps(1, 0 .. 1, WidePositions))

\* The reconstruction on index maps whose positions may lie outside the image.
SpecOutOfGrid == InitOutOfGrid /\ [][Next]_vars

NextEval ==
    \/ Construct
    \/ Eval

\* An evaluator is constructed and eval is called on it once.
SpecEval == InitEval /\ [][NextEval]_vars

NextEvalTwice ==
    \/ Construct
    \/ Eval
    \/ CallEval

\* An evaluator is constructed and eval is called on it twice.
SpecEvalTwice == InitEvalTwice /\ [][NextEvalTwice]_vars

NextSweep ==
    \/ Backup
    \/ EnterLoop
    \/ UpdateConfig
    \/ UpdateConfigRaises
    \/ RunExperiment
    \/ Answer
    \/ KeyboardInterrupt
    \/ LoopEnd
    \/ Restore

\* main() of a parameter-sweep script.
SpecSweep == InitSweep /\ [][NextSweep]_vars

\* main() of a sweep script whose training does not always write its files.
SpecSweepFiles == InitSweepFiles /\ [][NextSweep]_vars

NextMain ==
    \/ SingleCheck
    \/ SingleInference
    \/ AllStart
    \/ AllVisit
    \/ AllInference
    \/ AllEnd

\* main() of generate_maps in either mode.
SpecMain == InitMain /\ [][NextMain]_vars

NextSync ==
    \/ CheckDirectory
    \/ CheckGitDirectory
    \/ GitInit
    \/ GitBranch
    \/ CheckRemote
    \/ AddSshRemote
    \/ RemoveRemote
    \/ AddHttpsRemote
    \/ GitAdd
    \/ GitStatus
    \/ GitCommit
    \/ GitPush
    \/ GitForcePush
    \/ GitPushNoCommits
    \/ Finish

\* One run of sync_to_github.
SpecSync == InitSync /\ [][NextSync]_vars

NextAA == CallAA

\* AA_andEachClassAccuracy applied to a square matrix of counts.
SpecAA == InitAA /\ [][NextAA]_vars

\* ---------------------------------------------------- evaluation: claims
\* the row of the confusion matrix that belongs to class value k (0 if none)
RowOf(k) ==
    LET labs == UniqueLabels
    IN IF \E i \in 1 .. Len(labs) : labs[i] = k
       THEN CHOOSE i \in 1 .. Len(labs) : labs[i] = k
       ELSE 0

\* C10 (as stated): for every non-empty label vector y, eval(y, y) reports
\* oa = 100, kappa = 100 and a per-class accuracy of 100 for every class with
\* non-zero support, vectors with a single class value included.
C10_PerfectPredictionScoresHundred ==
    (eval_pc = "returned" /\ y_pred_test = y_test) =>
        /\ self_res.oa = <<100, 1>>
        /\ self_res.kappa = <<100, 1>>
        /\ \A k \in 0 .. MaxClass :
              Support(k) > 0 => self_res.each_acc[RowOf(k)] = <<100, 1>>

\* the matrix that the report's "confusion" string prints
ReportedConfusion ==
    [i \in 1 .. (Len(self_res.confusion) - 2) |-> self_res.confusion[i + 1][2]]

\* C11 (as stated): for all equal-length label vectors the confusion matrix of
\* the report is C x C with C = 1 + max(true_labels) and its entry (i, j) is
\* the number of samples of true class i predicted as class j, also when a
\* class index below the maximum occurs in neither vector or a prediction
\* exceeds max(true_labels).
C11_ConfusionIsClassNumSquare ==
    eval_pc = "returned" =>
        /\ Len(ReportedConfusion) = class_num
        /\ \A i \in 1 .. class_num : Len(ReportedConfusion[i]) = class_num
        /\ \A i, j \in 1 .. class_num : ReportedConfusion[i][j] = Count(i - 1, j - 1)

\* C12 (as stated): each_acc of the report has C = 1 + max(true_labels)
\* entries and entry i is 100 * (samples of true class i predicted as i) /
\* (samples of true class i), 0 for a class without samples: the entries are
\* aligned with the class indices of the classification breakdown.
C12_EachAccAlignedWithClassIndices ==
    eval_pc = "returned" =>
        /\ Len(self_res.each_acc) = class_num
        /\ \A i \in 1 .. class_num :
              self_res.each_acc[i] = Ratio0(100 * Count(i - 1, i - 1), Support(i - 1))

\* C14: for all equal-length label vectors the cells of the confusion matrix
\* of the report add up to the length of true_labels.
C14_ConfusionSumsToLength ==
    eval_pc = "returned" => Total(ReportedConfusion) = Len(y_test)

\* eval has returned on vectors of which a predicted label is no true label
C14_Witness ==
    /\ eval_pc = "returned"
    /\ Len(y_test) >= 2
    /\ \E n \in 1 .. Len(y_test) : \A m \in 1 .. Len(y_test) : y_pred_test[n] # y_test[m]
    /\ Total(ReportedConfusion) = Len(y_test)

\* C15: when the two vectors have different lengths eval raises before any
\* metric is computed: neither vector is truncated, no report is returned and
\* self.res is left exactly as it was before the call.
C15_MismatchedLengthsRejected ==
    [][(eval_pc = "ready" /\ Len(y_test) # Len(y_pred_test)) =>
          /\ eval_pc' = "raised"
          /\ self_res' = self_res
          /\ returned' = returned
          /\ y_test' = y_test
          /\ y_pred_test' = y_pred_test]_vars

\* a second call with vectors of different lengths has raised, the report
\* of the first call still being in self.res
C15_Witness ==
    /\ eval_pc = "raised"
    /\ calls = 2
    /\ Len(y_test) # Len(y_pred_test)
    /\ Len(returned) = 1
    /\ self_res # <<>>
    /\ self_res = first_report.res

ReportKeys == {"oa", "aa", "kappa", "each_acc", "confusion", "classification"}

\* the per-class rows of the report's classification breakdown: all items but
\* the three aggregate ones at the end
ReportedClassRows ==
    SubSeq(self_res.classification, 1, Len(self_res.classification) - 3)

\* C16: for a dataset identifier that is none of the seven known ones,
\* get_target_names returns None without raising, the evaluator is
\* constructed, and eval still returns a report with oa, aa, kappa, each_acc,
\* confusion and classification all computed.
C16_UnknownDatasetStillEvaluates ==
    (data_sign \notin KnownDataSigns /\ eval_pc # "new") =>
        /\ target_names = None
        /\ eval_pc \in {"ready", "returned", "raised"}
        /\ eval_pc = "raised" => Raises
        /\ eval_pc = "returned" =>
              /\ DOMAIN self_res = ReportKeys
              /\ self_res.oa = Frac(100 * SumTo([n \in 1 .. Len(y_test) |->
                                          IF y_test[n] = y_pred_test[n] THEN 1 ELSE 0],
                                          Len(y_test)), Len(y_test))
              /\ Len(self_res.each_acc) = Len(ReportedConfusion)
              /\ Len(ReportedClassRows) = class_num
              /\ \A k \in 1 .. class_num : ReportedClassRows[k].key = ToString(k - 1)

\* eval has returned a report on an evaluator of an unknown dataset
C16_Witness ==
    /\ data_sign \notin KnownDataSigns
    /\ eval_pc = "returned"
    /\ target_names = None
    /\ Len(ReportedClassRows) >= 2

\* C17: the classification breakdown has one per-class row for every class
\* index in 0 .. max(true_labels), classes without true samples or without
\* predicted samples included; a precision, recall or F1 whose denominator is
\* zero is reported as 0, and such a class is neither skipped nor an error.
C17_RowForEveryClassIndex ==
    eval_pc = "returned" =>
        /\ Len(ReportedClassRows) = class_num
        /\ \A k \in 0 .. (class_num - 1) :
              LET row == ReportedClassRows[k + 1]
              IN /\ row.key = IF target_names.none THEN ToString(k)
                              ELSE target_names.names[k + 1]
                 /\ row.value.support = Support(k)
                 /\ row.value.precision =
                        IF Predicted(k) = 0 THEN <<0, 1>> ELSE Frac(Count(k, k), Predicted(k))
                 /\ row.value.recall =
                        IF Support(k) = 0 THEN <<0, 1>> ELSE Frac(Count(k, k), Support(k))
                 /\ row.value.f1 =
                        IF Predicted(k) + Support(k) = 0 THEN <<0, 1>>
                        ELSE Frac(2 * Count(k, k), Predicted(k) + Support(k))

\* a report with a class that is neither a true nor a predicted label and a
\* class that is predicted but never true
C17_Witness ==
    /\ eval_pc = "returned"
    /\ \E k, l \in 0 .. (class_num - 1) :
          /\ Support(k) = 0 /\ Predicted(k) = 0
          /\ Support(l) = 0 /\ Predicted(l) > 0
          /\ ReportedClassRows[k + 1].value.f1 = <<0, 1>>
          /\ ReportedClassRows[l + 1].value.precision = <<0, 1>>

\* C18 (as stated): a report is created fresh per eval call and is immutable
\* once returned: after a first call has returned R1, a second call on the
\* same evaluator with different inputs leaves every field of R1 unchanged
\* and returns a distinct report.
C18_ReturnedReportImmutable ==
    (/\ Len(returned) = 2
     /\ <<y_test, y_pred_test>> # <<first_report.y_test, first_report.y_pred_test>>) =>
        /\ Deref(returned[1]) = first_report.res
        /\ returned[2] # returned[1]

\* C19: get_target_names returns, for each of the seven known dataset
\* identifiers, a non-null, non-empty sequence of names of the fixed length of
\* that dataset: IndianPine 16, Pavia 9, Houston 15, Salinas 16, WHHH 22,
\* KSC 13, Plastic 13.
DocumentedLength ==
    [IndianPine |-> 16, Pavia |-> 9, Houston |-> 15, Salinas |-> 16, WHHH |-> 22,
     KSC |-> 13, Plastic |-> 13]

C19_KnownDatasetNameCounts ==
    (data_sign \in KnownDataSigns /\ eval_pc # "new") =>
        /\ ~target_names.none
        /\ Len(target_names.names) > 0
        /\ Len(target_names.names) = DocumentedLength[data_sign]

\* an evaluator of the WHHH dataset has been constructed with its 22 names
C19_Witness ==
    /\ data_sign = "WHHH"
    /\ eval_pc = "ready"
    /\ ~target_names.none
    /\ Len(target_names.names) = 22

\* ----------------------------------- AA_andEachClassAccuracy: claims
\* the mean over all rows of the matrix of diagonal / row sum, a row of sum 0
\* contributing the term 0
MeanWithZeroTerms(c) ==
    LET term(i) == IF RowSum(c, i) = 0 THEN <<0, 1>> ELSE Frac(c[i][i], RowSum(c, i))
        s == FracSumTo([i \in 1 .. Len(c) |-> term(i)], Len(c))
    IN Frac(s[1], s[2] * Len(c))

\* C13: for any confusion matrix AA_andEachClassAccuracy returns a per-class
\* accuracy of exactly 0 (not NaN, no error) for every row whose sum is 0,
\* and that 0 is a term of the unweighted mean it returns as average accuracy.
C13_ZeroRowGivesZero ==
    aa_pc = "returned" =>
        /\ Len(aa_result[1]) = Len(aa_matrix)
        /\ \A i \in 1 .. Len(aa_matrix) :
              RowSum(aa_matrix, i) = 0 => aa_result[1][i] = <<0, 1>>
        /\ aa_result[2] = MeanWithZeroTerms(aa_matrix)

\* the function has returned on a matrix with a zero row and a row that is not
C13_Witness ==
    /\ aa_pc = "returned"
    /\ \E i, j \in 1 .. Len(aa_matrix) :
          /\ RowSum(aa_matrix, i) = 0
          /\ aa_matrix[j][j] > 0
          /\ aa_result[1][i] = <<0, 1>>
          /\ aa_result[2] # <<0, 1>>
          /\ aa_result[2] # aa_result[1][j]

\* ------------------------------------------------- sweep scripts: claims
\* C20: in every sweep script, once main() has created the backup of the
\* config file, main() ends with the config file restored to the content it
\* had at start and with the backup file removed, whatever happened in
\* between: all experiments ran, an experiment failed or timed out, the user
\* answered other than 'y', or a KeyboardInterrupt arrived during an
\* experiment or during the prompt.
C20_ConfigRestoredBackupRemoved ==
    sweep_pc \in {"done", "raised"} =>
        /\ config_file = config_at_start
        /\ backup_file = Absent

\* main has ended after experiments that succeeded and experiments that
\* failed, the config having held another content in between
C20_Witness ==
    /\ sweep_pc = "done"
    /\ successful_experiments # <<>>
    /\ failed_experiments # <<>>
    /\ config_file = config_at_start
    /\ config_at_start.layout = "hand-written"
    /\ backup_file = Absent

\* the values for which a training subprocess was launched, in launch order
Attempted == [n \in 1 .. Len(launched) |-> launched[n].value]

IsPrefix(a, b) == Len(a) <= Len(b) /\ \A n \in 1 .. Len(a) : a[n] = b[n]

InSeq(x, q) == \E n \in 1 .. Len(q) : q[n] = x

\* the attempts are a prefix of the value list, in its order, and each was
\* launched on a config file holding its value
AttemptsFollowTheList ==
    /\ IsPrefix(Attempted, SweepValues[script])
    /\ \A n \in 1 .. Len(launched) : launched[n].config = launched[n].value

\* the value of attempt n is in exactly one of the two result lists
RecordedOnce(n) ==
    InSeq(Attempted[n], successful_experiments) # InSeq(Attempted[n], failed_experiments)

Ended == sweep_pc \in {"done", "raised"}

Refused == last_response # "<none>" /\ Lower(last_response) # "y"

\* after an answer other than 'y' nothing more is launched
NoLaunchAfterRefusal == Refused => launched' = launched

\* C21 (as stated): in every sweep script the experiments are attempted in the
\* order of the value list and the attempted values always form a prefix of
\* it; when the training for value v is launched the config file holds v;
\* each attempted value ends in exactly one of successful_experiments or
\* failed_experiments; and after a failed experiment followed by an answer
\* other than 'y' (case-insensitive) no later value is attempted.
C21_AttemptsInOrderEachRecorded ==
    /\ [](AttemptsFollowTheList
          /\ (Ended => \A n \in 1 .. Len(launched) : RecordedOnce(n)))
    /\ [][NoLaunchAfterRefusal]_vars

\* C21 (amended): as above, but an attempted value is in exactly one of the
\* two lists once its run_experiment call has returned; the value whose
\* experiment a KeyboardInterrupt cut short is in neither list.
C21_AttemptsInOrderReturnedOnesRecorded ==
    /\ [](/\ AttemptsFollowTheList
          /\ \A n \in 1 .. Len(launched) :
                IF n = Len(launched) /\ (sweep_pc = "launch" \/ interrupted = "launch")
                THEN /\ ~InSeq(Attempted[n], successful_experiments)
                     /\ ~InSeq(Attempted[n], failed_experiments)
                ELSE RecordedOnce(n)
          /\ Refused => sweep_pc \in {"finally", "done", "raised"})
    /\ [][NoLaunchAfterRefusal]_vars

\* main has ended after a success, a failure answered with 'y', and an
\* experiment cut short by a KeyboardInterrupt, whose value is in neither list
C21_Witness ==
    /\ sweep_pc = "done"
    /\ interrupted = "launch"
    /\ Lower(last_response) = "y"
    /\ successful_experiments # <<>>
    /\ failed_experiments # <<>>
    /\ Len(launched) = Len(successful_experiments) + Len(failed_experiments) + 1
    /\ launched[Len(launched)].config = SweepValues[script][Len(launched)]
    /\ ~InSeq(Attempted[Len(launched)], failed_experiments)

\* the files of the two output directories
OutputFiles ==
    {results_dir[n] : n \in 1 .. Len(results_dir)}
        \cup {checkpoints_dir[n] : n \in 1 .. Len(checkpoints_dir)}

\* C22 (as stated): over any sequence of experiments, the result file and the
\* checkpoint file that receive the identifier suffix of value v are files
\* produced by the experiment for v: a file that already carries the suffix
\* of an earlier experiment is never renamed again, also when a successful
\* experiment produces no new matching file.
C22_SuffixOnlyOnOwnFiles ==
    \A f \in OutputFiles :
        /\ Len(f.suffixes) <= 1
        /\ \A n \in 1 .. Len(f.suffixes) : f.suffixes[n] = f.made_by

\* ------------------------------------------------- generate_maps: claims
\* the pairs in dataset-major order
AllPairs ==
    [n \in 1 .. (Len(datasets) * Len(models)) |->
        <<datasets[((n - 1) \div Len(models)) + 1], models[((n - 1) % Len(models)) + 1]>>]

CallsFor(pair) ==
    {n \in 1 .. Len(inference_calls) :
        <<inference_calls[n].dataset, inference_calls[n].model>> = pair}

\* C23: in 'all' mode every (dataset, model) pair is visited exactly once in
\* dataset-major order; a pair whose checkpoint file is missing is skipped
\* without an error, and an exception raised while processing one pair is
\* caught and does not prevent any later pair from being processed.
C23_AllModeVisitsEveryPair ==
    args.mode = "all" =>
        /\ IsPrefix(visited, AllPairs)
        /\ (gm_pc = "done" => visited = AllPairs)
        /\ gm_pc # "raised"
        /\ gm_error = ""
        /\ \A n \in 1 .. Len(visited) :
              LET found == Exists(AllCheckpointPath(visited[n][1], visited[n][2]))
                  underway == n = Len(visited) /\ gm_pc = "all_inference"
              IN Cardinality(CallsFor(visited[n])) = IF found /\ ~underway THEN 1 ELSE 0

\* 'all' mode has ended after a pair whose inference raised, a later pair
\* whose inference completed, and pairs without a checkpoint
C23_Witness ==
    /\ args.mode = "all"
    /\ gm_pc = "done"
    /\ Len(visited) = Len(datasets) * Len(models)
    /\ Len(inference_calls) = 2
    /\ inference_calls[1].outcome = "Exception"
    /\ inference_calls[2].outcome = "completed"

\* C24 (as stated): for the same dataset and model 'single' mode and 'all'
\* mode look for the same checkpoint file path, so a checkpoint that 'all'
\* mode processes is also found by 'single' mode; in 'single' mode a missing
\* checkpoint raises FileNotFoundError before any inference is run.
C24_BothModesSameCheckpoint ==
    /\ args.mode = "all" =>
          \A n \in 1 .. Len(inference_calls) :
              LET call == inference_calls[n]
              IN /\ call.checkpoint_path = SingleCheckpointPath(call.dataset, call.model)
                 /\ Exists(SingleCheckpointPath(call.dataset, call.model))
    /\ (args.mode = "single" /\ gm_pc # "start"
           /\ ~Exists(SingleCheckpointPath(args.dataset, args.model))) =>
          /\ gm_pc = "raised"
          /\ gm_error = "FileNotFoundError"
          /\ inference_calls = <<>>

\* ------------------------------------------------ sync_to_github: claims
StageOrder == <<"git", "remote", "sync">>

StageNames == [n \in 1 .. Len(stages) |-> stages[n].stage]

\* the position of a stage in main
Position(stage) == CHOOSE n \in 1 .. Len(StageOrder) : StageOrder[n] = stage

\* the stage main is in, 0 before the first and after the last
Running ==
    CASE sync_pc \in {"git_setup", "git_init", "git_branch"} -> 1
      [] sync_pc \in {"remote_setup", "remote_ssh", "remote_remove", "remote_https"} -> 2
      [] sync_pc \in {"sync_add", "sync_status", "sync_commit", "sync_push", "sync_force",
                      "sync_push_no_commits"} -> 3
      [] OTHER -> 0

\* the stages that have been entered: those that returned and the running one
Entered == Len(stages) + (IF Running = 0 THEN 0 ELSE 1)

SomeStageFailed == \E n \in 1 .. Len(stages) : ~stages[n].returned

ForcePush == "git push -u origin main --force"

\* C25: main runs its stages in the order git setup, remote setup, sync and
\* stops at the first stage that fails, returning False (process exit code 1)
\* without running later stages; within sync_repository a force push is
\* attempted only after a commit was made and the normal push failed, and never
\* when there are no changes to commit.
C25_StagesInOrderForcePushOnlyAfterFailedPush ==
    /\ IsPrefix(StageNames, StageOrder)
    /\ Running # 0 => Running = Len(stages) + 1
    /\ \A n \in 1 .. Len(commands) :
          /\ Position(commands[n].stage) <= Entered
          /\ n > 1 => Position(commands[n - 1].stage) <= Position(commands[n].stage)
    /\ \A n \in 1 .. Len(stages) :
          ~stages[n].returned =>
              /\ n = Len(stages)
              /\ sync_pc = "exited"
              /\ sync_result = [returned |-> "False", exit_code |-> 1]
              /\ \A k \in 1 .. Len(commands) : Position(commands[k].stage) <= n
    /\ sync_result.returned = "True" =>
          /\ StageNames = StageOrder
          /\ ~SomeStageFailed
          /\ sync_result.exit_code = 0
    /\ sync_result.returned = "False" => sync_result.exit_code = 1
    /\ \A n \in 1 .. Len(commands) :
          commands[n].command = ForcePush =>
              /\ sync_env.changes
              /\ n > 2
              /\ commands[n - 1] = [stage |-> "sync", command |-> "git push -u origin main",
                                    ok |-> FALSE]
              /\ commands[n - 2] = [stage |-> "sync", command |-> "git commit", ok |-> TRUE]

\* the third stage failed after its force push, the two earlier ones having
\* succeeded with the HTTPS remote
C25_Witness ==
    /\ sync_pc = "exited"
    /\ sync_result = [returned |-> "False", exit_code |-> 1]
    /\ Len(stages) = 3
    /\ ~stages[3].returned
    /\ commands[Len(commands)] = [stage |-> "sync", command |-> ForcePush, ok |-> FALSE]
    /\ \E n \in 1 .. Len(commands) : commands[n].command = "git remote add origin https_url"

====
